---- MODULE Spec2Model ----
(***************************************************************************)
(* PITCH1002: a CHIP-8 interpreter.  The model covers the instruction      *)
(* engine of src/src/cpu.rs (struct Cpu and its methods) driven through    *)
(* its public interface: load, unload, restart, step, step_timers,         *)
(* button_pressed and button_released.                                     *)
(*                                                                         *)
(* The engine is one record, cpu, whose fields are the fields of struct    *)
(* Cpu.  A Rust panic (an out-of-range index or slice) ends the process;   *)
(* the record carries it in the extra field "panic", and no operation      *)
(* runs on a panicked engine.                                              *)
(***************************************************************************)
EXTENDS Integers, Sequences, FiniteSets, TLC

VARIABLES
    cpu,    \* the Cpu struct
    twin,   \* a second Cpu, given the same calls as cpu where the two are
            \* compared
    app,    \* the App struct: is_paused, is_fastforward, config.speed, and the
            \* position of the RedrawRequested handler in its loops (rounds
            \* still to run, steps done in the current batch)
    last    \* the most recent call made on the engine: its name, its argument
            \* and a few scalars of the engine as they were before the call,
            \* and the keys whose latest event, since the last restart or
            \* unload, was a press (an observer of the calls, not state of
            \* the program)

vars == <<cpu, twin, app, last>>

----------------------------------------------------------------------------
(* Program constants *)

DISPLAY_WIDTH == 64
DISPLAY_HEIGHT == 32
DISPLAY_DATA_LEN == DISPLAY_WIDTH * DISPLAY_HEIGHT
MEMORY_CAPACITY == 4096
STACK_CAPACITY == 16
START_PC == 512
CHIP_FONT_LEN == 80

(* The largest program image that fits between START_PC and the end of memory. *)
MAX_PROGRAM_LEN == MEMORY_CAPACITY - START_PC

(* config.rs: the speed used when the command line gives none, and the     *)
(* largest speed set_speed allows                                          *)
DEFAULT_SPEED == 20
MAX_SPEED == 40000

(* config.rs: the length of DEFAULT_PALETTES *)
DEFAULT_PALETTES_LEN == 15

(* Option<u8>::None of waiting_button_for; Some(x) is the register index x. *)
None == -1

(* The values of the "panic" field. *)
NoPanic == "none"
PanicMemory == "memory index out of bounds"
PanicButtons == "buttons index out of bounds"
PanicLoad == "load: range end index out of range for slice"

----------------------------------------------------------------------------
(* Bounds of the model *)

(* config.speed, a non-zero u16 taken from the command line, ranges over   *)
(* 1 .. MaxSpeed in the frame loop's specification.                        *)
MaxSpeed == 2

(* Palette lists given on the command line have 1 .. MaxPalettes entries.  *)
MaxPalettes == 12

(* At most MaxSpeedKeys speed keys are pressed in a run of the speed keys' *)
(* specification.                                                          *)
MaxSpeedKeys == 6

(* Step is taken only while cpu.tick < MaxTick, so a run executes at most  *)
(* MaxTick instructions between two resets.                                *)
MaxTick == 36

(* Key codes the input layer delivers in the model: the MaxKeys highest,   *)
(* 16 - MaxKeys .. 0xF.                                                    *)
MaxKeys == 1

(* After a restart, load is called with one of the first MaxReloadImages   *)
(* program images.                                                         *)
MaxReloadImages == 4

(* Register values of the sample games: 0..MaxOperand, 0x7F, 0x80 and      *)
(* 255 - MaxOperand..255                                                    *)
MaxOperand == 1

----------------------------------------------------------------------------
(* u8 / u16 arithmetic *)

U8 == 256
U16 == 65536

Min(a, b) == IF a < b THEN a ELSE b
Max(a, b) == IF a > b THEN a ELSE b

(* u8::saturating_sub *)
saturating_sub(a, b) == IF a < b THEN 0 ELSE a - b

(* u8::wrapping_add *)
wrapping_add8(a, b) == (a + b) % U8

(* u16::wrapping_add *)
wrapping_add16(a, b) == (a + b) % U16

RECURSIVE BitAndN(_, _, _)
BitAndN(a, b, n) ==
    IF n = 0 THEN 0
    ELSE (IF a % 2 = 1 /\ b % 2 = 1 THEN 1 ELSE 0) + 2 * BitAndN(a \div 2, b \div 2, n - 1)

RECURSIVE BitOrN(_, _, _)
BitOrN(a, b, n) ==
    IF n = 0 THEN 0
    ELSE (IF a % 2 = 1 \/ b % 2 = 1 THEN 1 ELSE 0) + 2 * BitOrN(a \div 2, b \div 2, n - 1)

RECURSIVE BitXorN(_, _, _)
BitXorN(a, b, n) ==
    IF n = 0 THEN 0
    ELSE (IF (a % 2) # (b % 2) THEN 1 ELSE 0) + 2 * BitXorN(a \div 2, b \div 2, n - 1)

BitAnd(a, b) == BitAndN(a, b, 16)
BitOr(a, b) == BitOrN(a, b, 16)
BitXor(a, b) == BitXorN(a, b, 16)

----------------------------------------------------------------------------
(* The built-in font: 16 glyphs of 5 bytes, copied to memory[0..80). *)

CHIP_FONT ==
    << 240, 144, 144, 144, 240,    32,  96,  32,  32, 112,
       240,  16, 240, 128, 240,   240,  16, 240,  16, 240,
       144, 144, 240,  16,  16,   240, 128, 240,  16, 240,
       240, 128, 240, 144, 240,   240,  16,  32,  64,  64,
       240, 144, 240, 144, 240,   240, 144, 240,  16, 240,
       240, 144, 240, 144, 144,   224, 144, 224, 144, 224,
       240, 128, 128, 128, 240,   224, 144, 144, 144, 224,
       240, 128, 240, 128, 240,   240, 128, 240, 128, 128 >>

----------------------------------------------------------------------------
(* impl Default for Cpu *)

Default ==
    [ ready |-> FALSE,
      v |-> [x \in 0..15 |-> 0],
      i |-> 0,
      pc |-> START_PC,
      sp |-> 0,
      dt |-> 0,
      st |-> 0,
      stack |-> [s \in 0..(STACK_CAPACITY - 1) |-> 0],
      memory |-> [a \in 0..(MEMORY_CAPACITY - 1) |->
                    IF a < CHIP_FONT_LEN THEN CHIP_FONT[a + 1] ELSE 0],
      display |-> [p \in 0..(DISPLAY_DATA_LEN - 1) |-> FALSE],
      tick |-> 0,
      jump_next |-> TRUE,
      display_changed |-> FALSE,
      waiting_button_for |-> None,
      buttons |-> [k \in 0..15 |-> FALSE],
      panic |-> NoPanic ]

(* A panic unwinds out of the call with the fields as they were at that point. *)
Panic(c, kind) == [c EXCEPT !.panic = kind]

InMemory(a) == a >= 0 /\ a < MEMORY_CAPACITY

----------------------------------------------------------------------------
(* Cpu::load: memory[start..start + bytes.len()].copy_from_slice(bytes).    *)
(* The slice index is range-checked before any byte is copied.             *)

(* load that copies one byte too few *)
load_drops_last(c, bytes) ==
    LET start == START_PC
        len == Len(bytes)
    IN  IF start + len > MEMORY_CAPACITY
        THEN Panic(c, PanicLoad)
        ELSE [c EXCEPT
                !.memory = [a \in 0..(MEMORY_CAPACITY - 1) |->
                              IF a >= start /\ a < start + len - 1
                              THEN bytes[a - start + 1] ELSE c.memory[a]],
                !.ready = TRUE]

(* load that reports the framebuffer as changed *)
load_marks_changed(c, bytes) ==
    LET start == START_PC
        len == Len(bytes)
    IN  IF start + len > MEMORY_CAPACITY
        THEN Panic(c, PanicLoad)
        ELSE [c EXCEPT
                !.memory = [a \in 0..(MEMORY_CAPACITY - 1) |->
                              IF a >= start /\ a < start + len
                              THEN bytes[a - start + 1] ELSE c.memory[a]],
                !.ready = TRUE,
                !.display_changed = TRUE]

load(c, bytes) ==
    LET start == START_PC
        len == Len(bytes)
    IN  IF start + len > MEMORY_CAPACITY
        THEN Panic(c, PanicLoad)
        ELSE [c EXCEPT
                !.memory = [a \in 0..(MEMORY_CAPACITY - 1) |->
                              IF a >= start /\ a < start + len
                              THEN bytes[a - start + 1] ELSE c.memory[a]],
                !.ready = TRUE]

(* unload that leaves the game in memory *)
unload_keeps_memory(c) == [Default EXCEPT !.memory = c.memory]

(* Cpu::unload *)
unload(c) == [Default EXCEPT !.ready = FALSE]

(* restart that resets memory as well *)
restart_clears_memory(c) == Default

(* Cpu::restart *)
restart(c) == [Default EXCEPT !.memory = c.memory]

(* step_timers with a wrapping decrement in place of the saturating one *)
step_timers_wrapping(c) ==
    [c EXCEPT !.dt = (c.dt + U8 - 1) % U8,
              !.st = (c.st + U8 - 1) % U8]

(* Cpu::step_timers *)
step_timers(c) ==
    [c EXCEPT !.dt = saturating_sub(c.dt, 1),
              !.st = saturating_sub(c.st, 1)]

(* Cpu::get / Cpu::set *)
get(c, x) == c.v[x]
set(c, x, value) == [c EXCEPT !.v[x] = value]

(* button_pressed that only latches the key and leaves the pending wait to *)
(* a later step                                                            *)
button_pressed_deferred(c, btn) == [c EXCEPT !.buttons[btn] = TRUE]

(* Cpu::button_pressed *)
button_pressed(c, btn) ==
    LET c1 == [c EXCEPT !.buttons[btn] = TRUE] IN
    IF c1.waiting_button_for # None
    THEN [set(c1, c1.waiting_button_for, btn) EXCEPT !.waiting_button_for = None]
    ELSE c1

(* button_released that leaves the latch as it was *)
button_released_sticky(c, btn) == c

(* Cpu::button_released *)
button_released(c, btn) == [c EXCEPT !.buttons[btn] = FALSE]

(* Cpu::is_btn_pressed: buttons[btn as usize], an array of 16. *)
ButtonInRange(btn) == btn >= 0 /\ btn < 16
is_btn_pressed(c, btn) == c.buttons[btn]

----------------------------------------------------------------------------
(* Instructions *)

(* clear that also resets the collision flag *)
clear_resets_flag(c) ==
    [c EXCEPT !.display = [p \in 0..(DISPLAY_DATA_LEN - 1) |-> FALSE],
              !.display_changed = TRUE,
              !.v[15] = 0]

(* Cpu::clear *)
clear(c) ==
    [c EXCEPT !.display = [p \in 0..(DISPLAY_DATA_LEN - 1) |-> FALSE],
              !.display_changed = TRUE]

(* The inner loop of a draw that turns cells on instead of flipping them *)
RECURSIVE draw_cols_or(_, _, _, _, _, _)
draw_cols_or(acc, sprite, vx, vy, row, col) ==
    IF col >= 8 THEN acc
    ELSE IF (sprite \div 128) % 2 = 1
    THEN LET x == (vx + col) % DISPLAY_WIDTH
             y == (vy + row) % DISPLAY_HEIGHT
             idx == y * DISPLAY_WIDTH + x
         IN draw_cols_or([acc EXCEPT !.display[idx] = TRUE,
                                     !.overlaps = acc.overlaps \/ acc.display[idx]],
                         (sprite * 2) % U8, vx, vy, row, col + 1)
    ELSE draw_cols_or(acc, (sprite * 2) % U8, vx, vy, row, col + 1)

(* The inner loop of Cpu::draw: the eight columns of one sprite row.  acc   *)
(* is [display, overlaps, panic]; sprite is shifted left once per column.   *)
RECURSIVE draw_cols(_, _, _, _, _, _)
draw_cols(acc, sprite, vx, vy, row, col) ==
    IF col >= 8 THEN acc
    ELSE IF (sprite \div 128) % 2 = 1
    THEN LET x == (vx + col) % DISPLAY_WIDTH
             y == (vy + row) % DISPLAY_HEIGHT
             idx == y * DISPLAY_WIDTH + x
         IN IF acc.display[idx]
            THEN draw_cols([acc EXCEPT !.display[idx] = FALSE, !.overlaps = TRUE],
                           (sprite * 2) % U8, vx, vy, row, col + 1)
            ELSE draw_cols([acc EXCEPT !.display[idx] = TRUE],
                           (sprite * 2) % U8, vx, vy, row, col + 1)
    ELSE draw_cols(acc, (sprite * 2) % U8, vx, vy, row, col + 1)

(* The outer loop of Cpu::draw after its first n rows (rows 0..n-1), each   *)
(* reading memory[i + row].  An out-of-range read panics and ends the loop  *)
(* with the rows drawn so far on the display.                               *)
RECURSIVE draw_rows(_, _, _, _)
draw_rows(c, vx, vy, n) ==
    IF n = 0 THEN [display |-> c.display, overlaps |-> FALSE, panic |-> FALSE]
    ELSE LET acc == draw_rows(c, vx, vy, n - 1) IN
         IF acc.panic THEN acc
         ELSE IF ~InMemory(c.i + n - 1) THEN [acc EXCEPT !.panic = TRUE]
         ELSE draw_cols(acc, c.memory[c.i + n - 1], vx, vy, n - 1, 0)

(* The end of Cpu::draw: VF = overlaps, display_changed = true *)
draw_end(c, acc) ==
    IF acc.panic THEN Panic([c EXCEPT !.display = acc.display], PanicMemory)
    ELSE [ set([c EXCEPT !.display = acc.display], 15, IF acc.overlaps THEN 1 ELSE 0)
             EXCEPT !.display_changed = TRUE ]

(* draw with the two coordinates taken from the wrong registers *)
draw_swapped(c, x, y, n) == draw_end(c, draw_rows(c, get(c, y), get(c, x), n))

(* Cpu::draw *)
draw(c, x, y, n) == draw_end(c, draw_rows(c, get(c, x), get(c, y), n))

(* jump that leaves the automatic advance of pc in force *)
jump_advancing(c, addr) == [c EXCEPT !.pc = addr]

(* Cpu::jump *)
jump(c, addr) == [c EXCEPT !.pc = addr, !.jump_next = FALSE]

(* call without the clamp of the stack pointer *)
call_unclamped(c, addr) ==
    [c EXCEPT !.stack[c.sp] = c.pc, !.sp = c.sp + 1, !.pc = addr, !.jump_next = FALSE]

(* Cpu::call *)
call(c, addr) ==
    jump([c EXCEPT !.stack[c.sp] = c.pc,
                   !.sp = Min(c.sp + 1, STACK_CAPACITY - 1)],
         addr)

(* Cpu::ret *)
ret(c) ==
    LET sp1 == saturating_sub(c.sp, 1) IN
    [c EXCEPT !.sp = sp1, !.pc = c.stack[sp1]]

(* skip_vx_eq_byte comparing the register's index in place of its value *)
skip_x_eq_byte(c, x, byte) ==
    IF x = byte THEN [c EXCEPT !.pc = c.pc + 2] ELSE c

(* Cpu::skip_vx_eq_byte, skip_vx_neq_byte, skip_vx_eq_vy, skip_vx_neq_vy *)
skip_vx_eq_byte(c, x, byte) ==
    IF get(c, x) = byte THEN [c EXCEPT !.pc = c.pc + 2] ELSE c
skip_vx_neq_byte(c, x, byte) ==
    IF get(c, x) # byte THEN [c EXCEPT !.pc = c.pc + 2] ELSE c
skip_vx_eq_vy(c, x, y) ==
    IF get(c, x) = get(c, y) THEN [c EXCEPT !.pc = c.pc + 2] ELSE c
skip_vx_neq_vy(c, x, y) ==
    IF get(c, x) # get(c, y) THEN [c EXCEPT !.pc = c.pc + 2] ELSE c

(* add_vx_byte that reports the carry in VF *)
add_vx_byte_carry(c, x, byte) ==
    LET sum == get(c, x) + byte IN
    set(set(c, x, sum % U8), 15, IF sum >= U8 THEN 1 ELSE 0)

(* Cpu::add_vx_byte, set_vx_vy *)
add_vx_byte(c, x, byte) == set(c, x, wrapping_add8(get(c, x), byte))
set_vx_vy(c, x, y) == set(c, x, get(c, y))

(* Cpu::add_vx_vy: overflowing_add, result to Vx, then the carry to VF *)
add_vx_vy(c, x, y) ==
    LET sum == get(c, x) + get(c, y) IN
    set(set(c, x, sum % U8), 15, IF sum >= U8 THEN 1 ELSE 0)

(* sub_vx_vy whose flag is 1 only for Vx > Vy *)
sub_vx_vy_strict(c, x, y) ==
    LET a == get(c, x)
        b == get(c, y)
    IN set(set(c, x, (a - b + U8) % U8), 15, IF a > b THEN 1 ELSE 0)

(* Cpu::sub_vx_vy: overflowing_sub, result to Vx, then NOT borrow to VF *)
sub_vx_vy(c, x, y) ==
    LET a == get(c, x)
        b == get(c, y)
    IN set(set(c, x, (a - b + U8) % U8), 15, IF a < b THEN 0 ELSE 1)

(* sub_vy_vx with its operands exchanged: Vx = Vx - Vy *)
sub_vy_vx_exchanged(c, y, x) == sub_vx_vy(c, x, y)

(* Cpu::sub_vy_vx(y, x): Vx = Vy - Vx, then NOT borrow to VF *)
sub_vy_vx(c, y, x) ==
    LET a == get(c, y)
        b == get(c, x)
    IN set(set(c, x, (a - b + U8) % U8), 15, IF a < b THEN 0 ELSE 1)

(* Cpu::or, and, xor *)
or(c, x, y) == set(c, x, BitOr(get(c, x), get(c, y)))
and(c, x, y) == set(c, x, BitAnd(get(c, x), get(c, y)))
xor(c, x, y) == set(c, x, BitXor(get(c, x), get(c, y)))

(* Cpu::shift_right: VF = Vx & 1 first, then v[x] >>= 1 on the new bank *)
shift_right(c, x) ==
    LET c1 == set(c, 15, BitAnd(get(c, x), 1)) IN
    [c1 EXCEPT !.v[x] = c1.v[x] \div 2]

(* shift_left with the flag normalised to 0 or 1 *)
shift_left_normalised(c, x) ==
    LET c1 == set(c, 15, IF get(c, x) >= 128 THEN 1 ELSE 0) IN
    [c1 EXCEPT !.v[x] = (c1.v[x] * 2) % U8]

(* Cpu::shift_left: VF = Vx & 0x80 first, then v[x] <<= 1 on the new bank *)
shift_left(c, x) ==
    LET c1 == set(c, 15, BitAnd(get(c, x), 128)) IN
    [c1 EXCEPT !.v[x] = (c1.v[x] * 2) % U8]

(* bytes two evaluations of a generator outside the engine's state may    *)
(* give: any pair                                                          *)
rand_nums_seeded(tick1, tick2) == {0, 90, 255} \X {0, 90, 255}

(* Cpu::rand, let num = ...: the byte is computed from self.tick and       *)
(* constants alone, so two evaluations at equal ticks give equal bytes.    *)
(* The pairs of bytes that evaluations at tick1 and tick2 may give.        *)
rand_nums(tick1, tick2) ==
    { nn \in {0, 90, 255} \X {0, 90, 255} : tick1 = tick2 => nn[1] = nn[2] }

(* rand without the mask *)
rand_unmasked(c, x, byte, num) == set(c, x, num)

(* Cpu::rand: num is the byte derived from the tick counter *)
rand(c, x, byte, num) == set(c, x, BitAnd(num, byte))

(* Cpu::add_i_vx, set_i_sprite *)
add_i_vx(c, x) == [c EXCEPT !.i = wrapping_add16(c.i, get(c, x))]
set_i_sprite(c, x) == [c EXCEPT !.i = get(c, x) * 5]

(* Cpu::skip_pressed, skip_not_pressed *)
skip_pressed(c, x) ==
    LET btn == get(c, x) IN
    IF ~ButtonInRange(btn) THEN Panic(c, PanicButtons)
    ELSE IF is_btn_pressed(c, btn) THEN [c EXCEPT !.pc = c.pc + 2] ELSE c
skip_not_pressed(c, x) ==
    LET btn == get(c, x) IN
    IF ~ButtonInRange(btn) THEN Panic(c, PanicButtons)
    ELSE IF ~is_btn_pressed(c, btn) THEN [c EXCEPT !.pc = c.pc + 2] ELSE c

(* wait_for_keypress that takes a key already held as the awaited press *)
wait_for_keypress_held(c, x) ==
    IF \E k \in 0..15 : c.buttons[k]
    THEN set(c, x, CHOOSE k \in 0..15 : c.buttons[k])
    ELSE [c EXCEPT !.waiting_button_for = x]

(* wait_for_keypress that holds pc on the Fx0A until the key arrives *)
wait_for_keypress_rewind(c, x) ==
    [c EXCEPT !.waiting_button_for = x, !.jump_next = FALSE]

(* Cpu::wait_for_keypress *)
wait_for_keypress(c, x) == [c EXCEPT !.waiting_button_for = x]

(* store_bcd whose tens digit is Vx / 10 without the % 100 *)
store_bcd_tens(c, x) ==
    LET vx == get(c, x)
        i == c.i
    IN  IF ~InMemory(i) \/ ~InMemory(i + 2) THEN Panic(c, PanicMemory)
        ELSE [c EXCEPT !.memory[i] = vx \div 100,
                       !.memory[i + 1] = vx \div 10,
                       !.memory[i + 2] = vx % 10]

(* Cpu::store_bcd: three indexed writes in order, each bounds-checked *)
store_bcd(c, x) ==
    LET vx == get(c, x)
        i == c.i
        c1 == [c EXCEPT !.memory[i] = vx \div 100]
        c2 == [c1 EXCEPT !.memory[i + 1] = (vx % 100) \div 10]
    IN  IF ~InMemory(i) THEN Panic(c, PanicMemory)
        ELSE IF ~InMemory(i + 1) THEN Panic(c1, PanicMemory)
        ELSE IF ~InMemory(i + 2) THEN Panic(c2, PanicMemory)
        ELSE [c2 EXCEPT !.memory[i + 2] = vx % 10]

(* Cpu::store_through: for xx in 0..=x, memory[i + xx] = Vxx *)
RECURSIVE store_from(_, _, _)
store_from(c, xx, x) ==
    IF xx > x THEN c
    ELSE IF ~InMemory(c.i + xx) THEN Panic(c, PanicMemory)
    ELSE store_from([c EXCEPT !.memory[c.i + xx] = get(c, xx)], xx + 1, x)

(* store_through that stops before Vx *)
store_through_exclusive(c, x) == IF x = 0 THEN c ELSE store_from(c, 0, x - 1)

store_through(c, x) == store_from(c, 0, x)

(* Cpu::read_through: for xx in 0..=x, Vxx = memory[i + xx] *)
RECURSIVE read_from(_, _, _)
read_from(c, xx, x) ==
    IF xx > x THEN c
    ELSE IF ~InMemory(c.i + xx) THEN Panic(c, PanicMemory)
    ELSE read_from(set(c, xx, c.memory[c.i + xx]), xx + 1, x)

(* read_through that stops before Vx *)
read_through_exclusive(c, x) == IF x = 0 THEN c ELSE read_from(c, 0, x - 1)

read_through(c, x) == read_from(c, 0, x)

----------------------------------------------------------------------------
(* Cpu::execute: the nibbles (a, b, c, d) of the instruction word select    *)
(* the handler; the arms are disjoint up to the two catch-all arms.  num is *)
(* the byte Cpu::rand derives from the tick counter.                        *)

execute(c0, ins, num) ==
    LET a == (ins \div 4096) % 16
        b == (ins \div 256) % 16
        c == (ins \div 16) % 16
        d == ins % 16
        addr == ins % 4096
        byte == ins % 256
        nibble == ins % 16
        x == b
        y == c
    IN CASE a = 0 /\ b = 0 /\ c = 14 /\ d = 0 -> clear(c0)
         [] a = 13 -> draw(c0, x, y, nibble)
         [] a = 1 -> jump(c0, addr)
         [] a = 11 -> jump(c0, addr + get(c0, 0))
         [] a = 2 -> call(c0, addr)
         [] a = 0 /\ b = 0 /\ c = 14 /\ d = 14 -> ret(c0)
         [] a = 3 -> skip_vx_eq_byte(c0, x, byte)
         [] a = 4 -> skip_vx_neq_byte(c0, x, byte)
         [] a = 5 -> skip_vx_eq_vy(c0, x, y)
         [] a = 9 /\ d = 0 -> skip_vx_neq_vy(c0, x, y)
         [] a = 6 -> set(c0, x, byte)
         [] a = 7 -> add_vx_byte(c0, x, byte)
         [] a = 8 /\ d = 0 -> set_vx_vy(c0, x, y)
         [] a = 8 /\ d = 4 -> add_vx_vy(c0, x, y)
         [] a = 8 /\ d = 5 -> sub_vx_vy(c0, x, y)
         [] a = 8 /\ d = 7 -> sub_vy_vx(c0, y, x)
         [] a = 8 /\ d = 1 -> or(c0, x, y)
         [] a = 8 /\ d = 2 -> and(c0, x, y)
         [] a = 8 /\ d = 3 -> xor(c0, x, y)
         [] a = 8 /\ d = 6 -> shift_right(c0, x)
         [] a = 8 /\ d = 14 -> shift_left(c0, x)
         [] a = 12 -> rand(c0, x, byte, num)
         [] a = 15 /\ c = 0 /\ d = 7 -> set(c0, x, c0.dt)
         [] a = 15 /\ c = 1 /\ d = 5 -> [c0 EXCEPT !.dt = get(c0, x)]
         [] a = 15 /\ c = 1 /\ d = 8 -> [c0 EXCEPT !.st = get(c0, x)]
         [] a = 10 -> [c0 EXCEPT !.i = addr]
         [] a = 15 /\ c = 1 /\ d = 14 -> add_i_vx(c0, x)
         [] a = 15 /\ c = 2 /\ d = 9 -> set_i_sprite(c0, x)
         [] a = 14 /\ c = 9 /\ d = 14 -> skip_pressed(c0, x)
         [] a = 14 /\ c = 10 /\ d = 1 -> skip_not_pressed(c0, x)
         [] a = 15 /\ c = 0 /\ d = 10 -> wait_for_keypress(c0, x)
         [] a = 15 /\ c = 3 /\ d = 3 -> store_bcd(c0, x)
         [] a = 15 /\ c = 5 /\ d = 5 -> store_through(c0, x)
         [] a = 15 /\ c = 6 /\ d = 5 -> read_through(c0, x)
         [] OTHER -> c0

(* The instruction word Cpu::step fetches at pc: memory[pc] << 8 | memory[pc + 1] *)
fetch(c) == c.memory[c.pc] * 256 + c.memory[c.pc + 1]

(* step without the early return on a pending key-wait *)
step_through_wait(c, num) ==
    LET c1 == [c EXCEPT !.tick = wrapping_add16(c.tick, 1)] IN
    IF ~InMemory(c1.pc) \/ ~InMemory(c1.pc + 1) THEN Panic(c1, PanicMemory)
    ELSE
        LET c2 == execute(c1, fetch(c1), num) IN
        IF c2.panic # NoPanic THEN c2
        ELSE [c2 EXCEPT !.pc = IF c2.jump_next THEN c2.pc + 2 ELSE c2.pc,
                        !.jump_next = TRUE]

(* step that takes 0nnn ("jump to sys addr") as a jump to nnn *)
step_sys_jump(c, num) ==
    IF c.waiting_button_for # None THEN c
    ELSE
        LET c1 == [c EXCEPT !.tick = wrapping_add16(c.tick, 1)] IN
        IF ~InMemory(c1.pc) \/ ~InMemory(c1.pc + 1) THEN Panic(c1, PanicMemory)
        ELSE
            LET ins == fetch(c1)
                c2 == IF ins < 4096 /\ ins # 224 /\ ins # 238
                      THEN jump(c1, ins)
                      ELSE execute(c1, ins, num)
            IN IF c2.panic # NoPanic THEN c2
               ELSE [c2 EXCEPT !.pc = IF c2.jump_next THEN c2.pc + 2 ELSE c2.pc,
                               !.jump_next = TRUE]

(* step that also counts the timers down, once per executed instruction *)
step_ticking(c, num) ==
    IF c.waiting_button_for # None THEN c
    ELSE
        LET c1 == [c EXCEPT !.tick = wrapping_add16(c.tick, 1)] IN
        IF ~InMemory(c1.pc) \/ ~InMemory(c1.pc + 1) THEN Panic(c1, PanicMemory)
        ELSE
            LET c2 == execute(c1, fetch(c1), num) IN
            IF c2.panic # NoPanic THEN c2
            ELSE step_timers(
                   [c2 EXCEPT !.pc = IF c2.jump_next THEN c2.pc + 2 ELSE c2.pc,
                              !.jump_next = TRUE])

(* Cpu::step *)
step(c, num) ==
    IF c.waiting_button_for # None THEN c
    ELSE
        LET c1 == [c EXCEPT !.tick = wrapping_add16(c.tick, 1)] IN
        IF ~InMemory(c1.pc) \/ ~InMemory(c1.pc + 1) THEN Panic(c1, PanicMemory)
        ELSE
            LET c2 == execute(c1, fetch(c1), num) IN
            IF c2.panic # NoPanic THEN c2
            ELSE [c2 EXCEPT !.pc = IF c2.jump_next THEN c2.pc + 2 ELSE c2.pc,
                            !.jump_next = TRUE]

----------------------------------------------------------------------------
(* Program images handed to load.  A word list is laid out big-endian, two  *)
(* bytes per instruction, as step reads it back.                            *)

Image(words) ==
    [j \in 1..(2 * Len(words)) |->
        IF j % 2 = 1 THEN words[(j + 1) \div 2] \div 256 ELSE words[j \div 2] % 256]

(* F50A; E59E; 6A01; E5A1; 6B01; F60A; 1FFF *)
KeyProgram == Image(<<62730, 58782, 27137, 58785, 27393, 63242, 8191>>)

(* 6003; F015; 6001; F018; F107; F00A; 1FFF *)
TimerProgram == Image(<<24579, 61461, 24577, 61464, 61703, 61450, 8191>>)

(* Seventeen nested calls, then returns: block k at 0x200 + 4k is           *)
(* "2nnn to block k+1; 00EE", and 00EE follows the seventeenth block.       *)
CallDepth == STACK_CAPACITY + 1
CallProgram ==
    Image([j \in 1..(2 * CallDepth + 1) |->
             IF j % 2 = 1 /\ j < 2 * CallDepth + 1
             THEN 8192 + START_PC + 2 * (j + 1)
             ELSE 238])

(* 1FFF: jump to the last byte of memory *)
JumpLastProgram == Image(<<8191>>)
(* 60FF; BFFF: jump to 0xFFF + V0 *)
JumpV0Program == Image(<<24831, 49151>>)
(* AFFF; D002: a two-row sprite starting at the last byte *)
DrawEndProgram == Image(<<45055, 53250>>)
(* AFFE; F033: BCD at I = 0xFFE *)
BcdEndProgram == Image(<<45054, 61491>>)
(* AFFF; F155 and AFFF; F165: bulk store / load of V0..V1 at the last byte *)
StoreEndProgram == Image(<<45055, 61781>>)
ReadEndProgram == Image(<<45055, 61797>>)
(* A300; 60E6; F033; F155; 6000; F065; F00A; 1FFF: BCD of 230 at 0x300,    *)
(* then a bulk store and load of V0 at the same address                     *)
MemoryProgram == Image(<<41728, 24806, 61491, 61781, 24576, 61541, 61450, 8191>>)
(* 6010; E09E and 60FF; E0A1: key tests with V0 above 0xF *)
KeyTestProgram == Image(<<24592, 57502>>)
KeyTestNotProgram == Image(<<24831, 57505>>)
(* An image of exactly MAX_PROGRAM_LEN bytes: 1FFE, zeros, and a last word *)
(* 00AB at 0xFFE, after which pc runs off the end of memory                *)
FullProgram ==
    [j \in 1..MAX_PROGRAM_LEN |->
        IF j = 1 THEN 31 ELSE IF j = 2 THEN 254
        ELSE IF j = MAX_PROGRAM_LEN THEN 171 ELSE 0]
(* One byte more than fits *)
OversizedProgram == [j \in 1..(MAX_PROGRAM_LEN + 1) |-> 0]

(* D005; F00A; 6107; F115; 1FFF: the glyph at I = 0 drawn at (0, 0), then a *)
(* key-wait, a register load and a timer load under the lit framebuffer    *)
DrawWaitProgram ==
    Image(<<53253, 61450, 24839, 61717, 8191>>)

Programs ==
    << JumpLastProgram, MemoryProgram, FullProgram, OversizedProgram,
       KeyTestProgram, KeyTestNotProgram, JumpV0Program, DrawEndProgram,
       BcdEndProgram, StoreEndProgram, ReadEndProgram, KeyProgram,
       TimerProgram, CallProgram, DrawWaitProgram >>

(* The images handed to load: any of Programs on the freshly constructed    *)
(* engine, the first MaxReloadImages of them over a previous game.          *)
LoadImages(c) ==
    IF c = Default THEN 1..Len(Programs) ELSE 1..Min(MaxReloadImages, Len(Programs))

(* Key codes delivered by key_to_btn in the model *)
Keys == (16 - MaxKeys)..15

(* Bytes Cpu::rand may derive from the tick counter *)
RandBytes == {0, 90, 255}

IsRand(c) ==
    /\ c.waiting_button_for = None
    /\ InMemory(c.pc) /\ InMemory(c.pc + 1)
    /\ c.memory[c.pc] \div 16 = 12

----------------------------------------------------------------------------
(* The engine and its driver *)

(* The scalars of the engine that last keeps from before a call *)
Pre(c) ==
    [wait |-> c.waiting_button_for, dt |-> c.dt, st |-> c.st, sp |-> c.sp]

(* The instruction word a step on c executes; -1 when the step returns      *)
(* early (a key-wait is pending) or the fetch is out of range               *)
StepIns(c) ==
    IF c.waiting_button_for = None /\ InMemory(c.pc) /\ InMemory(c.pc + 1)
    THEN fetch(c) ELSE -1

(* App::new with Config::new: not paused, no fast-forward, config.speed as  *)
(* given, the first of the default palettes; no frame is running.  The      *)
(* palette list is modelled by its length, its j-th entry (from 0) by the   *)
(* number j + 1.                                                            *)
App_new(speed) ==
    [is_paused |-> FALSE, is_fastforward |-> FALSE, speed |-> speed,
     palettes_len |-> DEFAULT_PALETTES_LEN, cur_palette_index |-> 0,
     palette |-> 1,
     rounds |-> 0, steps |-> 0, frame_tick |-> 0, panic |-> NoPanic]

Init ==
    /\ cpu = Default
    /\ twin = Default
    /\ app = App_new(DEFAULT_SPEED)
    /\ last = [op |-> "default", arg |-> 0, pre |-> Pre(Default), held |-> {}]

Alive == cpu.panic = NoPanic

(* main: Cpu::default() followed by cpu.load(&game); also a load over the   *)
(* game left in memory by a restart                                         *)
Load ==
    /\ Alive
    /\ (cpu = Default \/ last.op = "restart")
    /\ \E p \in LoadImages(cpu) :
         /\ cpu' = load(cpu, Programs[p])
         /\ last' = [op |-> "load", arg |-> p, pre |-> Pre(cpu), held |-> last.held]
         /\ UNCHANGED <<twin, app>>

Unload ==
    /\ Alive
    /\ cpu' = unload(cpu)
    /\ last' = [op |-> "unload", arg |-> 0, pre |-> Pre(cpu), held |-> {}]
    /\ UNCHANGED <<twin, app>>

(* App::handle_key, Enter while paused *)
Restart ==
    /\ Alive
    /\ cpu' = restart(cpu)
    /\ last' = [op |-> "restart", arg |-> 0, pre |-> Pre(cpu), held |-> {}]
    /\ UNCHANGED <<twin, app>>

(* App::window_event, RedrawRequested: one cpu.step() of the frame's batch *)
Step ==
    /\ Alive
    /\ cpu.tick < MaxTick
    /\ \E num \in (IF IsRand(cpu) THEN RandBytes ELSE {0}) :
         cpu' = step(cpu, num)
    /\ last' = [op |-> "step", arg |-> StepIns(cpu), pre |-> Pre(cpu), held |-> last.held]
    /\ UNCHANGED <<twin, app>>

(* App::window_event, RedrawRequested: cpu.step_timers() *)
StepTimers ==
    /\ Alive
    /\ cpu' = step_timers(cpu)
    /\ last' = [op |-> "step_timers", arg |-> 0, pre |-> Pre(cpu), held |-> last.held]
    /\ UNCHANGED <<twin, app>>

(* App::handle_key: a mapped key went down *)
ButtonPressed ==
    /\ Alive
    /\ \E k \in Keys :
         /\ cpu' = button_pressed(cpu, k)
         /\ last' = [op |-> "button_pressed", arg |-> k, pre |-> Pre(cpu),
                     held |-> last.held \cup {k}]
         /\ UNCHANGED <<twin, app>>

(* App::handle_key: a mapped key went up *)
ButtonReleased ==
    /\ Alive
    /\ \E k \in Keys :
         /\ cpu' = button_released(cpu, k)
         /\ last' = [op |-> "button_released", arg |-> k, pre |-> Pre(cpu),
                     held |-> last.held \ {k}]
         /\ UNCHANGED <<twin, app>>

Next ==
    \/ Load
    \/ Unload
    \/ Restart
    \/ Step
    \/ StepTimers
    \/ ButtonPressed
    \/ ButtonReleased

Spec == Init /\ [][Next]_vars

----------------------------------------------------------------------------
(* The engine stepping through short sample games: a few instructions that  *)
(* set registers, the instruction under study, and a key-wait that halts.   *)

(* An instruction word from its four nibbles (a, b, c, d) *)
Word(a, b, c, d) == a * 4096 + b * 256 + c * 16 + d

(* 6xkk *)
SetByte(x, kk) == Word(6, x, 0, 0) + kk

(* F00A *)
KeyWaitWord == Word(15, 0, 0, 10)

Operands == (0..MaxOperand) \cup {127, 128} \cup ((255 - MaxOperand)..255)

(* Destination and source registers: V0, V1 and VF *)
RegsX == {0, 15}
RegsY == {0, 1, 15}

(* 6F07; 6xa; 7xkk *)
AddByteGames ==
    { Image(<<SetByte(15, 7), SetByte(x, a), Word(7, x, 0, 0) + kk, KeyWaitWord>>) :
        x \in RegsX, a \in Operands, kk \in Operands \cup {2} }

(* 6xa; 6yb; 8xy4 / 8xy5 / 8xy7 *)
AluGames ==
    { Image(<<SetByte(x, a), SetByte(y, b), Word(8, x, y, d), KeyWaitWord>>) :
        x \in RegsX, y \in RegsY, a \in Operands, b \in Operands, d \in {4, 5, 7} }

(* 6yAA; 6xa; 8xy6 / 8xyE *)
ShiftGames ==
    { Image(<<SetByte(y, 170), SetByte(x, a), Word(8, x, y, d), KeyWaitWord>>) :
        x \in RegsX, y \in {1, 15}, a \in Operands, d \in {6, 14} }

(* Words no arm of execute handles: 0nnn, 8xyN, 9xyN, Exkk and Fxkk next to *)
(* the assigned codes                                                       *)
UnknownWords ==
    {0, 1, 225, 239, 254, 291, 4095}
      \cup { Word(8, 0, 1, d) : d \in (8..13) \cup {15} }
      \cup { Word(9, 0, 1, d) : d \in {1, 8, 15} }
      \cup { Word(14, 0, 0, 0) + kk : kk \in {0, 157, 159, 160, 162, 255} }
      \cup { Word(15, 0, 0, 0) + kk :
               kk \in {0, 6, 8, 9, 11, 20, 22, 23, 25, 29, 31, 40, 42,
                       50, 52, 84, 86, 100, 102, 255} }

(* 6012; 6134; A123; the unknown word *)
UnknownGames ==
    { Image(<<SetByte(0, 18), SetByte(1, 52), Word(10, 1, 2, 3), w, KeyWaitWord>>) :
        w \in UnknownWords }

(* 6xa; 6yb; Annn; Dxyn; 7x03; Dxyn; Dxyn; 00E0: a sprite drawn on the      *)
(* empty screen, drawn again three cells to the right over the first, drawn *)
(* once more at the same place, and the screen cleared. The sprite is the   *)
(* font glyph at 0 or the bytes of the game itself at 0x200.                *)
DrawGames ==
    { Image(<<SetByte(xy[1], a), SetByte(xy[2], b), Word(10, 0, 0, 0) + addr,
              Word(13, xy[1], xy[2], n), Word(7, xy[1], 0, 3),
              Word(13, xy[1], xy[2], n), Word(13, xy[1], xy[2], n),
              Word(0, 0, 14, 0), KeyWaitWord>>) :
        xy \in {<<0, 1>>, <<15, 1>>, <<1, 15>>}, a \in {0, 62, 255}, b \in {0, 30},
        addr \in {0, START_PC}, n \in {0, 1, 5, 15} }

SampleGames == AddByteGames \cup AluGames \cup ShiftGames \cup UnknownGames \cup DrawGames

(* main: Cpu::default() followed by cpu.load(&game), the game a sample *)
LoadSample ==
    /\ cpu = Default
    /\ last.op = "default"
    /\ \E game \in SampleGames : cpu' = load(cpu, game)
    /\ last' = [op |-> "load", arg |-> 0, pre |-> Pre(cpu), held |-> last.held]
    /\ UNCHANGED <<twin, app>>

NextExec ==
    \/ LoadSample
    \/ Step

SpecExec == Init /\ [][NextExec]_vars

----------------------------------------------------------------------------
(* The engine stepping through a second set of sample games: memory         *)
(* transfers, BCD, random bytes, calls, jumps and skips.                    *)

(* The value the store games give Vj *)
StoreValue(base, j) == (base + 17 * j) % U8

(* 6jkk for j = 0..15; A300; Fx55; A400; FF65 (sixteen zeros: the bank is   *)
(* zeroed); A300; Fx65                                                      *)
StoreGames ==
    { Image([j \in 1..16 |-> SetByte(j - 1, StoreValue(base, j - 1))]
            \o <<Word(10, 3, 0, 0), Word(15, x, 5, 5),
                 Word(10, 4, 0, 0), Word(15, 15, 6, 5),
                 Word(10, 3, 0, 0), Word(15, x, 6, 5), KeyWaitWord>>) :
        x \in 0..15, base \in {3, 250} }

(* 63kk; A300; F333 for every byte kk *)
BcdGames ==
    { Image(<<SetByte(3, kk), Word(10, 3, 0, 0), Word(15, 3, 3, 3), KeyWaitWord>>) :
        kk \in 0..(U8 - 1) }

(* Cxkk *)
RandGames ==
    { Image(<<Word(12, x, 0, 0) + kk, KeyWaitWord>>) :
        x \in RegsX, kk \in Operands \cup {15, 85} }

(* d nested subroutines: the word at START_PC calls the block after it and *)
(* is followed by Fx0A; each further block is "call the next block; 00EE", *)
(* and the innermost block is a lone 00EE.  The j-th call sits at          *)
(* START_PC + 4 * (j - 1).                                                 *)
CallGame(d) ==
    Image([i \in 1..(2 * d + 1) |->
             IF i = 2 * d + 1 THEN Word(0, 0, 14, 14)
             ELSE IF i % 2 = 1 THEN Word(2, 0, 0, 0) + START_PC + 2 * (i - 1) + 4
             ELSE IF i = 2 THEN KeyWaitWord
             ELSE Word(0, 0, 14, 14)])

(* 60 v0; a; Fx0A; Fx0A; 6107; Fx0A: a is 1nnn, Bnnn or 2nnn aimed at the   *)
(* 6107 at START_PC + 8 (for Bnnn, nnn is the target less V0)              *)
JumpGames ==
    { Image(<<SetByte(0, v0),
              Word(a, 0, 0, 0) + START_PC + 8 - (IF a = 11 THEN v0 ELSE 0),
              KeyWaitWord, KeyWaitWord, SetByte(1, 7), KeyWaitWord>>) :
        v0 \in Operands, a \in {1, 2, 11} }

(* 6x a; 6y b; s; Fx0A; Fx0A: s is 3xkk, 4xkk, 5xy0 or 9xy0, with the       *)
(* condition both met and not met                                          *)
SkipGames ==
    { Image(<<SetByte(x, a), SetByte(y, b),
              Word(op, x, 0, 0) + (IF op \in {3, 4} THEN kk ELSE y * 16),
              KeyWaitWord, KeyWaitWord>>) :
        x \in RegsX, y \in {1, 15}, a \in {0, 255}, b \in {0, 255},
        op \in {3, 4, 5, 9}, kk \in {0, 255} }

Games ==
    StoreGames \cup BcdGames \cup RandGames \cup JumpGames \cup SkipGames
        \cup { CallGame(d) : d \in 1..STACK_CAPACITY }

(* main: Cpu::default() followed by cpu.load(&game), the game one of Games *)
LoadGame ==
    /\ cpu = Default
    /\ last.op = "default"
    /\ \E game \in Games : cpu' = load(cpu, game)
    /\ last' = [op |-> "load", arg |-> 0, pre |-> Pre(cpu), held |-> last.held]
    /\ UNCHANGED <<twin, app>>

NextGames ==
    \/ LoadGame
    \/ Step

SpecGames == Init /\ [][NextGames]_vars

----------------------------------------------------------------------------
(* The frame loop of App::window_event and the keys that steer it.  The    *)
(* event loop is single-threaded: a key event is handled between frames,   *)
(* never inside one, so the key actions are enabled only while no frame    *)
(* is running (app.rounds = 0).                                            *)

(* 6003; F015; 1204: DT := 3, then a jump to itself *)
FrameGame == Image(<<SetByte(0, 3), Word(15, 0, 1, 5), Word(1, 2, 0, 4)>>)

(* RedrawRequested: the outer loop runs once without fast-forward *)
frame_rounds_single(is_fastforward) == 1

(* RedrawRequested: let speed = if self.is_fastforward { 2 } else { 1 } *)
frame_rounds(is_fastforward) == IF is_fastforward THEN 2 ELSE 1

InitFrame ==
    /\ cpu = load(Default, FrameGame)
    /\ twin = Default
    /\ \E speed \in 1..MaxSpeed : app = App_new(speed)
    /\ last = [op |-> "load", arg |-> 0, pre |-> Pre(Default), held |-> {}]

(* RedrawRequested with elapsed_ms >= TARGET_DELAY, up to the loops: a     *)
(* paused frame only renders; an unpaused one enters the outer loop.       *)
(* frame_tick records the engine's tick counter at the start of the frame. *)
RedrawRequested ==
    /\ Alive
    /\ app.rounds = 0
    /\ \/ app.is_paused
       \/ cpu.tick + frame_rounds(app.is_fastforward) * app.speed <= MaxTick
    /\ app' = [app EXCEPT
                 !.rounds = IF app.is_paused THEN 0
                            ELSE frame_rounds(app.is_fastforward),
                 !.steps = 0,
                 !.frame_tick = cpu.tick]
    /\ last' = [op |-> "redraw", arg |-> 0, pre |-> Pre(cpu), held |-> last.held]
    /\ UNCHANGED <<cpu, twin>>

(* for _ in 0..self.config.speed { self.cpu.step(); ... } *)
FrameStep ==
    /\ Alive
    /\ app.rounds > 0
    /\ app.steps < app.speed
    /\ \E num \in (IF IsRand(cpu) THEN RandBytes ELSE {0}) :
         cpu' = step(cpu, num)
    /\ app' = [app EXCEPT !.steps = app.steps + 1]
    /\ UNCHANGED twin
    /\ last' = [op |-> "step", arg |-> StepIns(cpu), pre |-> Pre(cpu), held |-> last.held]

(* self.cpu.step_timers() after the inner loop; then the next round *)
FrameTimers ==
    /\ Alive
    /\ app.rounds > 0
    /\ app.steps = app.speed
    /\ cpu' = step_timers(cpu)
    /\ app' = [app EXCEPT !.rounds = app.rounds - 1, !.steps = 0]
    /\ UNCHANGED twin
    /\ last' = [op |-> "step_timers", arg |-> 0, pre |-> Pre(cpu), held |-> last.held]

(* App::handle_key, Escape pressed: self.is_paused ^= true *)
KeyEscape ==
    /\ Alive
    /\ app.rounds = 0
    /\ app' = [app EXCEPT !.is_paused = ~app.is_paused]
    /\ last' = [op |-> "key_escape", arg |-> 0, pre |-> Pre(cpu), held |-> last.held]
    /\ UNCHANGED <<cpu, twin>>

(* App::handle_key, Space pressed or released: is_fastforward follows it *)
KeySpace ==
    /\ Alive
    /\ app.rounds = 0
    /\ \E is_pressed \in BOOLEAN :
         /\ app' = [app EXCEPT !.is_fastforward = is_pressed]
         /\ last' = [op |-> "key_space", arg |-> IF is_pressed THEN 1 ELSE 0,
                     pre |-> Pre(cpu), held |-> last.held]
    /\ UNCHANGED <<cpu, twin>>

(* App::handle_key, Enter pressed: restart and unpause, only if paused *)
KeyEnter ==
    /\ Alive
    /\ app.rounds = 0
    /\ IF app.is_paused
       THEN /\ cpu' = restart(cpu)
            /\ app' = [app EXCEPT !.is_paused = FALSE]
       ELSE UNCHANGED <<cpu, app>>
    /\ last' = [op |-> "key_enter", arg |-> 0, pre |-> Pre(cpu),
                held |-> IF app.is_paused THEN {} ELSE last.held]
    /\ UNCHANGED twin

NextFrame ==
    \/ RedrawRequested
    \/ FrameStep
    \/ FrameTimers
    \/ KeyEscape
    \/ KeySpace
    \/ KeyEnter

SpecFrame == InitFrame /\ [][NextFrame]_vars

----------------------------------------------------------------------------
(* The speed keys of App::handle_key, from every speed the command line    *)
(* accepts (Cli::new parses --speed as a u16 and rejects only 0).          *)

PanicAdd == "attempt to add with overflow"

(* App::set_speed *)
set_speed(a, speed) == [a EXCEPT !.speed = Min(Max(speed, 1), MAX_SPEED)]

(* App::increase_speed: self.config.speed + 1 in u16; at 65535 the sum      *)
(* panics in a build with overflow checks and wraps to 0 in one without    *)
increase_speed(a, overflow_checks) ==
    IF a.speed + 1 < U16 THEN set_speed(a, a.speed + 1)
    ELSE IF overflow_checks THEN [a EXCEPT !.panic = PanicAdd]
    ELSE set_speed(a, (a.speed + 1) % U16)

(* App::decrease_speed *)
decrease_speed(a) == set_speed(a, saturating_sub(a.speed, 1))

(* Speeds given on the command line: the ends of the accepted range       *)
(* 1 .. 65535, the default, and the values around MAX_SPEED                *)
CliSpeeds ==
    {1, 2, DEFAULT_SPEED, MAX_SPEED - 1, MAX_SPEED, MAX_SPEED + 1, U16 - 2, U16 - 1}

(* Config::new: speed = cli.speed.unwrap_or(DEFAULT_SPEED) *)
InitSpeed ==
    /\ cpu = Default
    /\ twin = Default
    /\ \E speed \in CliSpeeds : app = App_new(speed)
    /\ last = [op |-> "default", arg |-> 0, pre |-> Pre(Default), held |-> {}]

(* App::handle_key: Digit0, Equal / NumpadAdd, Minus / NumpadSubtract;     *)
(* last.arg counts the speed keys pressed so far                           *)
KeySpeed ==
    /\ app.panic = NoPanic
    /\ last.arg < MaxSpeedKeys
    /\ \/ /\ app' = set_speed(app, DEFAULT_SPEED)
          /\ last' = [last EXCEPT !.op = "key_digit0", !.arg = last.arg + 1]
       \/ /\ \E overflow_checks \in BOOLEAN :
               app' = increase_speed(app, overflow_checks)
          /\ last' = [last EXCEPT !.op = "key_equal", !.arg = last.arg + 1]
       \/ /\ app' = decrease_speed(app)
          /\ last' = [last EXCEPT !.op = "key_minus", !.arg = last.arg + 1]
    /\ UNCHANGED <<cpu, twin>>

SpecSpeed == InitSpeed /\ [][KeySpeed]_vars

----------------------------------------------------------------------------
(* The palette keys of App::handle_key, for every length of the palette    *)
(* list (Cli::new parses --palettes into at least one palette).            *)

PanicRem == "attempt to calculate the remainder with a divisor of zero"

(* Config::next_palette *)
next_palette(a) ==
    IF a.panic # NoPanic THEN a
    ELSE IF a.palettes_len - 1 = 0 THEN [a EXCEPT !.panic = PanicRem]
    ELSE LET new_index == (a.cur_palette_index + 1) % (a.palettes_len - 1) IN
         [a EXCEPT !.palette = new_index + 1, !.cur_palette_index = new_index]

(* Config::prev_palette *)
prev_palette(a) ==
    IF a.panic # NoPanic THEN a
    ELSE LET new_index == IF a.cur_palette_index = 0 THEN a.palettes_len - 1
                          ELSE a.cur_palette_index - 1 IN
         [a EXCEPT !.palette = new_index + 1, !.cur_palette_index = new_index]

(* Config::new: palettes = cli.palettes.unwrap_or(DEFAULT_PALETTES) *)
InitPalette ==
    /\ cpu = Default
    /\ twin = Default
    /\ \E n \in 1..MaxPalettes :
         app = [App_new(DEFAULT_SPEED) EXCEPT !.palettes_len = n]
    /\ last = [op |-> "default", arg |-> 0, pre |-> Pre(Default), held |-> {}]

(* App::handle_key: BracketRight, BracketLeft *)
KeyPalette ==
    /\ app.panic = NoPanic
    /\ \/ /\ app' = next_palette(app)
          /\ last' = [last EXCEPT !.op = "key_bracket_right"]
       \/ /\ app' = prev_palette(app)
          /\ last' = [last EXCEPT !.op = "key_bracket_left"]
    /\ UNCHANGED <<cpu, twin>>

SpecPalette == InitPalette /\ [][KeyPalette]_vars

----------------------------------------------------------------------------
(* Two engines given the same calls: the same game, then the same steps,   *)
(* timer ticks and key events, one call at a time on both.                 *)

(* C003; F015; F10A; C2FF; E19E; 1FFF; 1FFF: the run ends at the last byte *)
(* of memory                                                               *)
TwinGames ==
    { Image(<<Word(12, 0, 0, 3), Word(15, 0, 1, 5), Word(15, 1, 0, 10),
              Word(12, 2, 15, 15), Word(14, 1, 9, 14), Word(1, 15, 15, 15),
              Word(1, 15, 15, 15)>>) }

TwinLoad ==
    /\ cpu = Default
    /\ last.op = "default"
    /\ \E game \in TwinGames :
         /\ cpu' = load(cpu, game)
         /\ twin' = load(twin, game)
    /\ last' = [op |-> "load", arg |-> 0, pre |-> Pre(cpu), held |-> last.held]
    /\ UNCHANGED app

TwinStep ==
    /\ Alive
    /\ last.op # "default"
    /\ cpu.tick < MaxTick
    /\ \E nn \in (IF IsRand(cpu) \/ IsRand(twin)
                   THEN rand_nums(cpu.tick, twin.tick) ELSE {<<0, 0>>}) :
         /\ cpu' = step(cpu, nn[1])
         /\ twin' = step(twin, nn[2])
    /\ last' = [op |-> "step", arg |-> StepIns(cpu), pre |-> Pre(cpu),
                held |-> last.held]
    /\ UNCHANGED app

TwinStepTimers ==
    /\ Alive
    /\ last.op # "default"
    /\ cpu' = step_timers(cpu)
    /\ twin' = step_timers(twin)
    /\ last' = [op |-> "step_timers", arg |-> 0, pre |-> Pre(cpu),
                held |-> last.held]
    /\ UNCHANGED app

TwinButton ==
    /\ Alive
    /\ last.op # "default"
    /\ \E k \in Keys :
         \/ /\ cpu' = button_pressed(cpu, k)
            /\ twin' = button_pressed(twin, k)
            /\ last' = [op |-> "button_pressed", arg |-> k, pre |-> Pre(cpu),
                        held |-> last.held \cup {k}]
         \/ /\ cpu' = button_released(cpu, k)
            /\ twin' = button_released(twin, k)
            /\ last' = [op |-> "button_released", arg |-> k, pre |-> Pre(cpu),
                        held |-> last.held \ {k}]
    /\ UNCHANGED app

NextTwin ==
    \/ TwinLoad
    \/ TwinStep
    \/ TwinStepTimers
    \/ TwinButton

SpecTwin == Init /\ [][NextTwin]_vars

----------------------------------------------------------------------------
(* Properties *)

(* Instruction words by opcode *)
IsKeyWait(ins) == ins \div 4096 = 15 /\ ins % 256 = 10
IsCall(ins) == ins \div 4096 = 2
IsRet(ins) == ins = 238
RegX(ins) == (ins \div 256) % 16
RegY(ins) == (ins \div 16) % 16
OpA(ins) == ins \div 4096
OpD(ins) == ins % 16
OpByte(ins) == ins % 256

(* C1: a step that executes Fx0A sets the wait marker to x, and every step  *)
(* taken while the marker is set changes nothing of the engine: pc,         *)
(* registers, memory, stack, timers, framebuffer, tick and the marker.      *)
KeyWaitStepsAreNoOps ==
    [][ last'.op = "step" =>
          /\ IsKeyWait(last'.arg) => cpu'.waiting_button_for = RegX(last'.arg)
          /\ cpu.waiting_button_for # None => cpu' = cpu ]_vars

(* A step was taken while a key-wait was pending, and the wait still is. *)
KeyWaitStepWitness ==
    /\ last.op = "step"
    /\ last.pre.wait = 5
    /\ cpu.waiting_button_for = 5

(* C2: button_pressed(k) with a key-wait pending for Vx returns with Vx = k, *)
(* the marker cleared and latch[k] set; with no wait pending it changes     *)
(* latch[k] and nothing else.                                               *)
ButtonPressResolvesWait ==
    [][ last'.op = "button_pressed" =>
          LET k == last'.arg
              x == cpu.waiting_button_for
          IN IF x # None
             THEN /\ cpu'.v = [cpu.v EXCEPT ![x] = k]
                  /\ cpu'.waiting_button_for = None
                  /\ cpu'.buttons = [cpu.buttons EXCEPT ![k] = TRUE]
                  /\ [cpu' EXCEPT !.v = cpu.v, !.buttons = cpu.buttons,
                                  !.waiting_button_for = x] = cpu
             ELSE /\ cpu'.buttons = [cpu.buttons EXCEPT ![k] = TRUE]
                  /\ [cpu' EXCEPT !.buttons = cpu.buttons] = cpu ]_vars

(* A press has just resolved the wait for V5. *)
ButtonPressWitness ==
    /\ last.op = "button_pressed"
    /\ last.pre.wait = 5
    /\ cpu.v[5] = last.arg
    /\ cpu.waiting_button_for = None
    /\ cpu.buttons[last.arg]

(* C3: a timer tick, in every state including a pending key-wait, sets DT   *)
(* to max(DT-1, 0) and ST to max(ST-1, 0) and changes nothing else; 0 stays *)
(* 0 and never becomes 255.                                                 *)
TimerTickFloorsAtZero ==
    [][ last'.op = "step_timers" =>
          /\ cpu'.dt = (IF cpu.dt = 0 THEN 0 ELSE cpu.dt - 1)
          /\ cpu'.st = (IF cpu.st = 0 THEN 0 ELSE cpu.st - 1)
          /\ [cpu' EXCEPT !.dt = cpu.dt, !.st = cpu.st] = cpu ]_vars

(* A tick found DT = 0 while ST was still running, during a key-wait. *)
TimerTickWitness ==
    /\ last.op = "step_timers"
    /\ last.pre.dt = 0
    /\ last.pre.st = 1
    /\ last.pre.wait # None
    /\ cpu.dt = 0
    /\ cpu.st = 0

(* C4: the stack pointer is always a valid stack index; a call on a full    *)
(* stack rewrites the topmost slot and leaves sp at 15, a return on an      *)
(* empty stack leaves sp at 0, and neither faults.                          *)
StackPointerInRange ==
    /\ [](cpu.sp \in 0..(STACK_CAPACITY - 1))
    /\ [][ last'.op = "step" =>
             /\ (IsCall(last'.arg) \/ IsRet(last'.arg)) => cpu'.panic = NoPanic
             /\ (IsCall(last'.arg) /\ cpu.sp = STACK_CAPACITY - 1) =>
                    /\ cpu'.sp = STACK_CAPACITY - 1
                    /\ cpu'.stack = [cpu.stack EXCEPT ![STACK_CAPACITY - 1] = cpu.pc]
             /\ (IsRet(last'.arg) /\ cpu.sp = 0) => cpu'.sp = 0 ]_vars

(* A call was executed on a full stack. *)
FullStackCallWitness ==
    /\ last.op = "step"
    /\ IsCall(last.arg)
    /\ last.pre.sp = STACK_CAPACITY - 1
    /\ cpu.sp = STACK_CAPACITY - 1
    /\ cpu.panic = NoPanic

(* The address of the k-th call instruction of CallProgram *)
CallAddress(k) == START_PC + 4 * (k - 1)

(* CallProgram is in memory at 0x200, so tick counts the instructions of   *)
(* its run                                                                  *)
CallImageLoaded ==
    \A j \in 1..(4 * CallDepth + 2) : cpu.memory[START_PC + j - 1] = CallProgram[j]

(* C5: after 17 consecutive calls slot 15 holds the 17th call's address and *)
(* the 16 slots are distinct; the j-th of the following returns resumes     *)
(* after the address in slot 16 - j (slots 15, 14, ..., 0), the 17th again  *)
(* after slot 0, and nothing faults.                                        *)
SeventeenCallsThenReturns ==
    (CallImageLoaded /\ cpu.tick >= CallDepth /\ cpu.tick <= 2 * CallDepth) =>
        /\ cpu.panic = NoPanic
        /\ cpu.stack[STACK_CAPACITY - 1] = CallAddress(CallDepth)
        /\ \A s, t \in 0..(STACK_CAPACITY - 1) : s # t => cpu.stack[s] # cpu.stack[t]
        /\ \A j \in 1..STACK_CAPACITY :
             cpu.tick = CallDepth + j => cpu.pc = cpu.stack[STACK_CAPACITY - j] + 2
        /\ cpu.tick = 2 * CallDepth => cpu.pc = cpu.stack[0] + 2

(* C6: no step makes a memory access outside 0..4095: not the fetch at pc   *)
(* and pc + 1, not the sprite reads, the BCD writes or the bulk store/load. *)
MemoryAccessInRange == cpu.panic # PanicMemory

(* C7: Ex9E and ExA1 never index the input latch outside 0..15, whatever    *)
(* the value of Vx.                                                         *)
KeyTestIndexInRange == cpu.panic # PanicButtons

(* C8: load of an image longer than 3584 bytes returns to its caller (with  *)
(* an error) and leaves the whole engine as it was.                         *)
OversizedLoadRejected ==
    [][ (last'.op = "load" /\ Len(Programs[last'.arg]) > MAX_PROGRAM_LEN) =>
          /\ cpu'.panic = NoPanic
          /\ cpu' = cpu ]_vars

(* C9: load of an image of at most 3584 bytes copies it to 0x200.., leaves  *)
(* every other memory byte as it was, marks the engine ready and changes    *)
(* nothing else.                                                            *)
LoadCopiesImage ==
    [][ (last'.op = "load" /\ Len(Programs[last'.arg]) <= MAX_PROGRAM_LEN) =>
          LET bytes == Programs[last'.arg]
              len == Len(bytes)
          IN
          /\ \A j \in 0..(len - 1) : cpu'.memory[START_PC + j] = bytes[j + 1]
          /\ \A a \in 0..(MEMORY_CAPACITY - 1) :
               (a < START_PC \/ a >= START_PC + len) => cpu'.memory[a] = cpu.memory[a]
          /\ cpu'.ready
          /\ [cpu' EXCEPT !.memory = cpu.memory, !.ready = cpu.ready] = cpu ]_vars

(* The image that fills memory to its last byte has been loaded. *)
LoadWitness ==
    /\ last.op = "load"
    /\ Len(Programs[last.arg]) = MAX_PROGRAM_LEN
    /\ cpu.ready
    /\ cpu.memory[MEMORY_CAPACITY - 1] = 171
    /\ cpu.memory[0] = CHIP_FONT[1]

(* C10: restart leaves all of memory as it was and returns V0..VF, I, sp,   *)
(* DT, ST, the stack, the framebuffer, the changed flag, the input latch    *)
(* and the wait marker to their initial values, with pc = 0x200.            *)
RestartKeepsMemory ==
    [][ last'.op = "restart" =>
          /\ cpu'.memory = cpu.memory
          /\ cpu'.v = Default.v
          /\ cpu'.i = 0
          /\ cpu'.sp = 0
          /\ cpu'.dt = 0
          /\ cpu'.st = 0
          /\ cpu'.stack = Default.stack
          /\ cpu'.display = Default.display
          /\ cpu'.display_changed = FALSE
          /\ cpu'.buttons = Default.buttons
          /\ cpu'.waiting_button_for = None
          /\ cpu'.pc = START_PC ]_vars

(* A restart out of a key-wait, with bytes the program wrote still in memory. *)
RestartWitness ==
    /\ last.op = "restart"
    /\ last.pre.wait # None
    /\ cpu.memory[768] = 230
    /\ cpu.memory[770] = 0
    /\ cpu.memory[START_PC] = 163
    /\ cpu.waiting_button_for = None
    /\ cpu.pc = START_PC

(* C11: once the engine is ready it stays ready across every step, timer    *)
(* tick, key event and restart; only unload makes it not ready again.       *)
ReadyUntilUnload ==
    [][ (cpu.ready /\ last'.op # "unload") => cpu'.ready ]_vars

(* C12: the state an unload leaves, from any state, is exactly the freshly  *)
(* constructed engine: memory holds the font table at 0 and 0 in every      *)
(* other byte (the game is gone), registers, stack, timers, framebuffer,    *)
(* latch and wait marker are initial, pc = 0x200 and the engine is not      *)
(* ready.                                                                   *)
UnloadYieldsFreshEngine ==
    last.op = "unload" =>
      /\ cpu = Default
      /\ \A a \in 0..(MEMORY_CAPACITY - 1) :
           cpu.memory[a] = IF a < CHIP_FONT_LEN THEN CHIP_FONT[a + 1] ELSE 0
      /\ \A x \in 0..15 : cpu.v[x] = 0 /\ ~cpu.buttons[x] /\ cpu.stack[x] = 0
      /\ \A p \in 0..(DISPLAY_DATA_LEN - 1) : ~cpu.display[p]
      /\ cpu.i = 0 /\ cpu.sp = 0 /\ cpu.dt = 0 /\ cpu.st = 0
      /\ cpu.waiting_button_for = None
      /\ cpu.pc = START_PC
      /\ ~cpu.ready

(* An unload of an engine that had a game loaded and fifteen calls deep.    *)
UnloadWitness ==
    /\ last.op = "unload"
    /\ last.pre.sp = STACK_CAPACITY - 1
    /\ cpu = Default

(* The instruction words that match no arm of execute but the two that      *)
(* ignore: 0nnn other than 00E0 and 00EE, 8xyN with N in 8..D or F, 9xyN    *)
(* with N # 0, and the Exkk and Fxkk with no handler.                       *)
IsUnknown(ins) ==
    /\ ins >= 0
    /\ \/ OpA(ins) = 0 /\ ins # 224 /\ ins # 238
       \/ OpA(ins) = 8 /\ OpD(ins) \in (8..13) \cup {15}
       \/ OpA(ins) = 9 /\ OpD(ins) # 0
       \/ OpA(ins) = 14 /\ OpByte(ins) \notin {158, 161}
       \/ OpA(ins) = 15 /\ OpByte(ins) \notin {7, 10, 21, 24, 30, 41, 51, 85, 101}

(* C13: a step on an instruction word that matches no opcode handler does   *)
(* not fault, advances pc by exactly 2, and leaves registers, I, memory,    *)
(* stack, sp, timers, framebuffer, changed flag, latch and wait marker as   *)
(* they were (only the step counter moves).                                 *)
UnknownWordsOnlyAdvance ==
    [][ (last'.op = "step" /\ IsUnknown(last'.arg)) =>
          cpu' = [cpu EXCEPT !.pc = cpu.pc + 2,
                             !.tick = wrapping_add16(cpu.tick, 1)] ]_vars

(* 9011 stepped over with V0 # V1 and I set: pc is just past it and the     *)
(* registers hold what the game put there.                                  *)
UnknownWordWitness ==
    /\ last.op = "step"
    /\ IsUnknown(last.arg)
    /\ OpA(last.arg) = 9
    /\ cpu.v[0] = 18
    /\ cpu.v[1] = 52
    /\ cpu.i = 291
    /\ cpu.pc = START_PC + 8
    /\ cpu.panic = NoPanic

(* Dxyn as a whole: the cells under the 1 bits of the n sprite rows at I,   *)
(* bit 7 of a row at column Vx, wrapped at the screen's edges.              *)
SpriteCells(c, x, y, n) ==
    { ((c.v[y] + row) % DISPLAY_HEIGHT) * DISPLAY_WIDTH + ((c.v[x] + col) % DISPLAY_WIDTH) :
        <<row, col>> \in { rc \in (0..(n - 1)) \X (0..7) :
                             (c.memory[c.i + rc[1]] \div 2 ^ (7 - rc[2])) % 2 = 1 } }

IsDraw(ins) == ins >= 0 /\ OpA(ins) = 13

(* C14: Dxyn toggles exactly the cells ((Vx + col) mod 64, (Vy + row) mod   *)
(* 32) whose sprite bit (MSB first) is 1 and leaves every other cell as it  *)
(* was; afterwards VF = 1 if a cell went from on to off and 0 otherwise,    *)
(* and the changed flag is set.                                             *)
DrawTogglesSpriteCells ==
    [][ (last'.op = "step" /\ IsDraw(last'.arg) /\ cpu'.panic = NoPanic) =>
          LET cells == SpriteCells(cpu, RegX(last'.arg), RegY(last'.arg), OpD(last'.arg))
          IN /\ { p \in 0..(DISPLAY_DATA_LEN - 1) : cpu'.display[p] # cpu.display[p] } = cells
             /\ cpu'.v[15] = IF \E p \in cells : cpu.display[p] THEN 1 ELSE 0
             /\ cpu'.display_changed ]_vars

(* The glyph of 0 drawn at (62, 30), wrapping both ways, and then at (65,   *)
(* 30) = (1, 30) over it: the column at x = 1 went off, VF = 1.             *)
DrawWitness ==
    /\ last.op = "step"
    /\ last.arg = Word(13, 0, 1, 5)
    /\ cpu.pc = START_PC + 12
    /\ cpu.v[0] = 65
    /\ cpu.v[1] = 30
    /\ cpu.i = 0
    /\ cpu.v[15] = 1
    /\ cpu.display[30 * DISPLAY_WIDTH + 62]
    /\ ~cpu.display[30 * DISPLAY_WIDTH + 1]
    /\ cpu.display[2 * DISPLAY_WIDTH + 63]
    /\ cpu.display[0 * DISPLAY_WIDTH + 4]

(* C15: the same sprite (same I, same bytes, same n) drawn twice in a row   *)
(* at the same coordinates leaves the framebuffer as it was before the      *)
(* first draw, from any framebuffer and at any position, wrapped ones       *)
(* included; the second draw ends with VF = 1 if the first turned a cell    *)
(* on. Stated on every draw the engine takes: the same draw applied to the  *)
(* state it left, which is what the next step does when the next word is    *)
(* the same Dxyn.                                                           *)
DrawTwiceRestores ==
    [][ ( /\ last'.op = "step" /\ IsDraw(last'.arg) /\ cpu'.panic = NoPanic
          /\ cpu'.v[RegX(last'.arg)] = cpu.v[RegX(last'.arg)]
          /\ cpu'.v[RegY(last'.arg)] = cpu.v[RegY(last'.arg)] ) =>
          LET again == draw(cpu', RegX(last'.arg), RegY(last'.arg), OpD(last'.arg))
          IN /\ again.display = cpu.display
             /\ (\E p \in 0..(DISPLAY_DATA_LEN - 1) : cpu'.display[p] /\ ~cpu.display[p])
                  => again.v[15] = 1
             /\ StepIns(cpu') = last'.arg =>
                  /\ step(cpu', 0).display = again.display
                  /\ step(cpu', 0).v = again.v ]_vars

(* The third draw of a sample game: the glyph drawn at (1, 30) a second     *)
(* time in a row; the screen is back to the glyph at (62, 30) alone.        *)
DrawTwiceWitness ==
    /\ last.op = "step"
    /\ last.arg = Word(13, 0, 1, 5)
    /\ cpu.pc = START_PC + 14
    /\ cpu.v[0] = 65
    /\ cpu.v[1] = 30
    /\ cpu.v[15] = 1
    /\ cpu.display[30 * DISPLAY_WIDTH + 62]
    /\ cpu.display[30 * DISPLAY_WIDTH + 1]
    /\ ~cpu.display[30 * DISPLAY_WIDTH + 4]
    /\ ~cpu.display[0 * DISPLAY_WIDTH + 4]

(* C16: a step executing 00E0 leaves all 2048 framebuffer cells false and   *)
(* the changed flag set; registers (VF too), I, memory, stack, timers and   *)
(* the rest are as before, and pc is 2 further.                             *)
ClearBlanksScreen ==
    [][ (last'.op = "step" /\ last'.arg = 224) =>
          /\ \A p \in 0..(DISPLAY_DATA_LEN - 1) : ~cpu'.display[p]
          /\ cpu'.display_changed
          /\ cpu' = [cpu EXCEPT !.display = cpu'.display,
                                !.display_changed = TRUE,
                                !.pc = cpu.pc + 2,
                                !.tick = wrapping_add16(cpu.tick, 1)] ]_vars

(* 00E0 at the end of a sample game: the draw before it collided (VF = 1),  *)
(* so cells were on; now none is and the registers are as the game left     *)
(* them.                                                                    *)
ClearWitness ==
    /\ last.op = "step"
    /\ last.arg = 224
    /\ cpu.pc = START_PC + 16
    /\ cpu.v[15] = 1
    /\ cpu.v[0] = 65
    /\ cpu.v[1] = 30
    /\ cpu.display = Default.display
    /\ cpu.display_changed

IsAddByte(ins) == ins >= 0 /\ OpA(ins) = 7
IsAlu(ins, d) == ins >= 0 /\ OpA(ins) = 8 /\ OpD(ins) = d

(* C17: for x # 0xF, after 7xkk Vx = (Vx + kk) mod 256 and VF and every     *)
(* other register are unchanged.                                            *)
AddByteWrapsWithoutFlag ==
    [][ (last'.op = "step" /\ IsAddByte(last'.arg) /\ RegX(last'.arg) # 15) =>
          cpu'.v = [cpu.v EXCEPT ![RegX(last'.arg)] =
                      (cpu.v[RegX(last'.arg)] + OpByte(last'.arg)) % 256] ]_vars

(* 6F07; 60FF; 7002: 0xFF + 0x02 gave 0x01 and VF is still 7.               *)
AddByteWitness ==
    /\ last.op = "step"
    /\ last.arg = Word(7, 0, 0, 2)
    /\ cpu.memory[START_PC + 3] = 255
    /\ cpu.v[0] = 1
    /\ cpu.v[15] = 7

(* C18: after 8xy5, for all x and y, VF = 0 exactly when Vx < Vy held       *)
(* before and VF = 1 otherwise, and for x # 0xF Vx = (Vx - Vy) mod 256.     *)
SubSetsNotBorrow ==
    [][ (last'.op = "step" /\ IsAlu(last'.arg, 5)) =>
          LET x == RegX(last'.arg)
              y == RegY(last'.arg)
          IN /\ cpu'.v[15] = IF cpu.v[x] < cpu.v[y] THEN 0 ELSE 1
             /\ x # 15 => cpu'.v[x] = (cpu.v[x] - cpu.v[y]) % 256
             /\ \A r \in 0..14 : r # x => cpu'.v[r] = cpu.v[r] ]_vars

(* 6001; 61FF; 8015: 1 - 255 borrowed: V0 = 2 and VF = 0.                   *)
SubWitness ==
    /\ last.op = "step"
    /\ last.arg = Word(8, 0, 1, 5)
    /\ cpu.v[0] = 2
    /\ cpu.v[1] = 255
    /\ cpu.v[15] = 0

(* The flag of a flag-producing instruction, from the state before it:      *)
(* carry, NOT borrow, the bit shifted out, collision.                       *)
FlagBefore(c, ins) ==
    LET vx == c.v[RegX(ins)]
        vy == c.v[RegY(ins)]
    IN CASE IsAlu(ins, 4) -> IF vx + vy > 255 THEN 1 ELSE 0
         [] IsAlu(ins, 5) -> IF vx >= vy THEN 1 ELSE 0
         [] IsAlu(ins, 7) -> IF vy >= vx THEN 1 ELSE 0
         [] IsAlu(ins, 6) -> vx % 2
         [] IsAlu(ins, 14) -> IF vx >= 128 THEN 128 ELSE 0
         [] IsDraw(ins) ->
              IF \E p \in SpriteCells(c, RegX(ins), RegY(ins), OpD(ins)) : c.display[p]
              THEN 1 ELSE 0

IsFlagOp(ins) ==
    \/ IsDraw(ins)
    \/ \E d \in {4, 5, 6, 7, 14} : IsAlu(ins, d)

(* C19: after 8xy4, 8xy5, 8xy6, 8xy7, 8xyE or Dxyn with x = 0xF or y = 0xF, *)
(* VF holds the flag computed from the operands as they were before the     *)
(* step, not the arithmetic or shift result.                                *)
FlagWrittenLast ==
    [][ ( /\ last'.op = "step" /\ IsFlagOp(last'.arg) /\ cpu'.panic = NoPanic
          /\ (RegX(last'.arg) = 15 \/ RegY(last'.arg) = 15) ) =>
          cpu'.v[15] = FlagBefore(cpu, last'.arg) ]_vars

(* C20: for x # 0xF, after 8xy6 VF = Vx & 1 and Vx = Vx div 2; after 8xyE   *)
(* VF = Vx & 0x80 (0 or 0x80, not 0 or 1) and Vx = (2 * Vx) mod 256; Vy has *)
(* no part in it: no other register changes and the result is the same      *)
(* whatever Vy holds.                                                       *)
ShiftsUseVxOnly ==
    [][ (last'.op = "step" /\ RegX(last'.arg) # 15) =>
          LET x == RegX(last'.arg) IN
          /\ IsAlu(last'.arg, 6) =>
               cpu'.v = [cpu.v EXCEPT ![x] = cpu.v[x] \div 2, ![15] = cpu.v[x] % 2]
          /\ IsAlu(last'.arg, 14) =>
               cpu'.v = [cpu.v EXCEPT ![x] = (2 * cpu.v[x]) % 256,
                                      ![15] = IF cpu.v[x] >= 128 THEN 128 ELSE 0] ]_vars

(* 61AA; 60FF; 801E: V0 = 0xFE, VF = 0x80 and V1 is still 0xAA.             *)
ShiftWitness ==
    /\ last.op = "step"
    /\ last.arg = Word(8, 0, 1, 14)
    /\ cpu.v[0] = 254
    /\ cpu.v[1] = 170
    /\ cpu.v[15] = 128

(* C21: Fx55 writes V0..Vx to memory[I..I+x] (x + 1 bytes, memory[I+j] =    *)
(* Vj) and changes no other memory byte, no register and not I; Fx65 sets   *)
(* Vj = memory[I+j] for j = 0..x and changes no register above Vx, no       *)
(* memory byte and not I.                                                   *)
BulkTransfersAreInclusive ==
    [][ ( /\ last'.op = "step" /\ last'.arg >= 0 /\ OpA(last'.arg) = 15
          /\ cpu'.panic = NoPanic ) =>
          LET x == RegX(last'.arg) IN
          /\ OpByte(last'.arg) = 85 =>
               cpu' = [cpu EXCEPT
                         !.memory = [a \in 0..(MEMORY_CAPACITY - 1) |->
                                       IF a >= cpu.i /\ a <= cpu.i + x
                                       THEN cpu.v[a - cpu.i] ELSE cpu.memory[a]],
                         !.pc = cpu.pc + 2,
                         !.tick = wrapping_add16(cpu.tick, 1)]
          /\ OpByte(last'.arg) = 101 =>
               cpu' = [cpu EXCEPT
                         !.v = [j \in 0..15 |->
                                  IF j <= x THEN cpu.memory[cpu.i + j] ELSE cpu.v[j]],
                         !.pc = cpu.pc + 2,
                         !.tick = wrapping_add16(cpu.tick, 1)] ]_vars

(* F255 at I = 0x300 with V0.. = 3, 20, 37, 54: three bytes written, the    *)
(* fourth not, V3 and I as before.                                          *)
BulkStoreWitness ==
    /\ last.op = "step"
    /\ last.arg = Word(15, 2, 5, 5)
    /\ cpu.i = 768
    /\ cpu.memory[768] = 3
    /\ cpu.memory[769] = 20
    /\ cpu.memory[770] = 37
    /\ cpu.memory[771] = 0
    /\ cpu.v[2] = 37
    /\ cpu.v[3] = 54

(* C22: for every x in 0..15, Fx55, then all registers zeroed, then Fx65    *)
(* with the same I and x gives V0..Vx their original values back. Stated on *)
(* every Fx55 the engine takes (the read applied to the state it left, with *)
(* the bank zeroed) and on the read the store games end with, whose         *)
(* original Vj is the operand of the game's 6jkk.                           *)
StoreReadRoundTrip ==
    [][ (last'.op = "step" /\ last'.arg >= 0 /\ OpA(last'.arg) = 15) =>
          LET x == RegX(last'.arg) IN
          /\ (OpByte(last'.arg) = 85 /\ cpu'.panic = NoPanic) =>
               \A j \in 0..x :
                 read_through([cpu' EXCEPT !.v = Default.v], x).v[j] = cpu.v[j]
          /\ (OpByte(last'.arg) = 101 /\ cpu.v = Default.v /\ cpu.i = 768) =>
               \A j \in 0..x : cpu'.v[j] = cpu.memory[START_PC + 2 * j + 1] ]_vars

(* The end of a store game with x = 15 and Vj = 250 + 17j: all sixteen      *)
(* registers read back.                                                     *)
RoundTripWitness ==
    /\ last.op = "step"
    /\ last.arg = Word(15, 15, 6, 5)
    /\ cpu.pc = START_PC + 44
    /\ cpu.i = 768
    /\ \A j \in 0..15 : cpu.v[j] = StoreValue(250, j)

(* C23: after Fx33, memory[I], memory[I+1], memory[I+2] are the hundreds,   *)
(* tens and ones digits of Vx (each in 0..9, 100 * memory[I] + 10 *         *)
(* memory[I+1] + memory[I+2] = Vx), and I, the registers and every other    *)
(* memory byte are unchanged.                                               *)
BcdStoresDigits ==
    [][ ( /\ last'.op = "step" /\ last'.arg >= 0 /\ OpA(last'.arg) = 15
          /\ OpByte(last'.arg) = 51 /\ cpu'.panic = NoPanic ) =>
          LET i == cpu.i
              m == cpu'.memory
          IN /\ m[i] \in 0..9 /\ m[i + 1] \in 0..9 /\ m[i + 2] \in 0..9
             /\ 100 * m[i] + 10 * m[i + 1] + m[i + 2] = cpu.v[RegX(last'.arg)]
             /\ cpu' = [cpu EXCEPT
                          !.memory = [cpu.memory EXCEPT ![i] = m[i], ![i + 1] = m[i + 1],
                                                        ![i + 2] = m[i + 2]],
                          !.pc = cpu.pc + 2,
                          !.tick = wrapping_add16(cpu.tick, 1)] ]_vars

(* V3 = 230, I = 0x300: the bytes at 0x300 are 2, 3, 0.                     *)
BcdWitness ==
    /\ last.op = "step"
    /\ last.arg = Word(15, 3, 3, 3)
    /\ cpu.v[3] = 230
    /\ cpu.i = 768
    /\ cpu.memory[768] = 2
    /\ cpu.memory[769] = 3
    /\ cpu.memory[770] = 0

(* C24: after Cxkk, whatever byte the generator produced, Vx has no bit set *)
(* outside kk; Cx00 leaves Vx = 0.                                          *)
RandIsMasked ==
    [][ (last'.op = "step" /\ last'.arg >= 0 /\ OpA(last'.arg) = 12) =>
          LET vx == cpu'.v[RegX(last'.arg)]
              kk == OpByte(last'.arg)
          IN /\ \A b \in 0..7 :
                  (vx \div 2 ^ b) % 2 = 1 => (kk \div 2 ^ b) % 2 = 1
             /\ kk = 0 => vx = 0 ]_vars

(* C080 with the generator's byte 255: only bit 7 is left in V0.            *)
RandWitness ==
    /\ last.op = "step"
    /\ last.arg = Word(12, 0, 8, 0)
    /\ cpu.v[0] = 128

(* C25: in the frame loop every timer tick comes after a complete batch of *)
(* exactly config.speed steps with no tick in between; an unpaused frame   *)
(* runs one batch and one tick, two of each under fast-forward, and a      *)
(* paused frame runs no step and no tick.  The steps are counted by the    *)
(* engine's own tick counter, from its value when the frame began.         *)
FrameBatchesThenTick ==
    [][ LET rounds == IF app.is_fastforward THEN 2 ELSE 1 IN
        /\ (last'.op = "step_timers" =>
              /\ ~app.is_paused
              /\ app.steps = app.speed
              /\ app.rounds \in 1..rounds
              /\ cpu.tick - app.frame_tick
                    = (rounds - app.rounds + 1) * app.speed
              /\ cpu'.tick = cpu.tick)
        /\ (last'.op = "step" =>
              /\ ~app.is_paused
              /\ app.steps < app.speed
              /\ cpu.tick - app.frame_tick
                    = (rounds - app.rounds) * app.speed + app.steps
              /\ cpu'.tick = cpu.tick + 1)
        /\ (last'.op = "redraw" /\ app.is_paused =>
              cpu' = cpu /\ app'.rounds = 0)
        /\ (last'.op = "redraw" /\ ~app.is_paused => app'.rounds = rounds)
        /\ (app.rounds > 0 => last'.op \in {"step", "step_timers"})
      ]_vars

(* the second tick of a fast-forward frame has run, after 2 * speed steps *)
FrameWitness ==
    /\ last.op = "step_timers"
    /\ app.is_fastforward
    /\ app.rounds = 0
    /\ app.speed = 2
    /\ cpu.tick - app.frame_tick = 4
    /\ cpu.dt = 1

(* C26: for every depth d from 1 to 16, d nested calls followed by d       *)
(* returns resume in LIFO order, each return continuing just after the     *)
(* matching call.  In a CallGame the innermost return (at an address that  *)
(* is a multiple of 4) matches the call 4 bytes before it, and every other *)
(* return (2 bytes after a call) matches the call 6 bytes before it.       *)
NestedCallsReturnLifo ==
    [][ last'.op = "step" /\ IsRet(last'.arg) =>
          cpu'.pc = IF cpu.pc % 4 = 0 THEN cpu.pc - 2 ELSE cpu.pc - 4 ]_vars

(* C27: after a step executing 1nnn pc = nnn exactly, after Bnnn            *)
(* pc = nnn + V0 exactly, after 2nnn pc = nnn exactly, with no +2 added;   *)
(* the suppression of the advance lasts for that step only: the flag is    *)
(* set again when the step ends, and a 6xkk executed by the following step *)
(* advances pc by 2.                                                       *)
JumpsSetPcExactly ==
    [][ last'.op = "step" /\ last'.arg >= 0 =>
          LET nnn == last'.arg % 4096 IN
          /\ (OpA(last'.arg) \in {1, 2} => cpu'.pc = nnn)
          /\ (OpA(last'.arg) = 11 => cpu'.pc = nnn + cpu.v[0])
          /\ (OpA(last'.arg) \in {1, 2, 11} => cpu'.jump_next)
          /\ (/\ last.op = "step" /\ last.arg >= 0
              /\ OpA(last.arg) \in {1, 2, 11}
              /\ OpA(last'.arg) = 6
              => cpu'.pc = cpu.pc + 2)
      ]_vars

(* B109 with V0 = 255 has jumped to the 6107 at START_PC + 8, and the next *)
(* step has executed it and moved on to START_PC + 10                      *)
JumpWitness ==
    /\ last.op = "step"
    /\ last.arg = SetByte(1, 7)
    /\ cpu.memory[START_PC + 2] = 177
    /\ cpu.v[0] = 255
    /\ cpu.v[1] = 7
    /\ cpu.pc = START_PC + 10

(* C28: a step executing 3xkk, 4xkk, 5xy0 or 9xy0 sets pc to pc + 4 when    *)
(* the condition holds (Vx = kk, Vx # kk, Vx = Vy, Vx # Vy) and to pc + 2  *)
(* when it does not, and changes no register, memory, stack or timer: of   *)
(* the engine only pc and the count of executed steps differ.              *)
SkipsMovePcOnly ==
    [][ /\ last'.op = "step"
        /\ last'.arg >= 0
        /\ \/ OpA(last'.arg) \in {3, 4}
           \/ OpA(last'.arg) \in {5, 9} /\ OpD(last'.arg) = 0
        => LET ins == last'.arg
               vx == cpu.v[(ins \div 256) % 16]
               vy == cpu.v[RegY(ins)]
               holds == CASE OpA(ins) = 3 -> vx = OpByte(ins)
                          [] OpA(ins) = 4 -> vx # OpByte(ins)
                          [] OpA(ins) = 5 -> vx = vy
                          [] OpA(ins) = 9 -> vx # vy
           IN cpu' = [cpu EXCEPT !.pc = IF holds THEN cpu.pc + 4 ELSE cpu.pc + 2,
                                 !.tick = cpu.tick + 1]
      ]_vars

(* 9F10 with VF = 255 and V1 = 0 has skipped the word after it *)
SkipWitness ==
    /\ last.op = "step"
    /\ last.arg = Word(9, 15, 1, 0)
    /\ cpu.v[15] = 255
    /\ cpu.v[1] = 0
    /\ cpu.pc = START_PC + 8

(* C29: for x # 0xF, any y and any register values, after 8xy4              *)
(* Vx = (Vx + Vy) mod 256 and VF = 1 iff Vx + Vy > 255, else 0; after 8xy7 *)
(* Vx = (Vy - Vx) mod 256 and VF = 1 iff Vy >= Vx, else 0; Vy is unchanged *)
(* when y is neither x nor 0xF.                                            *)
AddAndReverseSubSetFlag ==
    [][ /\ last'.op = "step"
        /\ IsAlu(last'.arg, 4) \/ IsAlu(last'.arg, 7)
        /\ RegX(last'.arg) # 15
        => LET x == RegX(last'.arg)
               y == RegY(last'.arg)
               vx == cpu.v[x]
               vy == cpu.v[y]
           IN /\ IsAlu(last'.arg, 4) =>
                   /\ cpu'.v[x] = (vx + vy) % 256
                   /\ cpu'.v[15] = IF vx + vy > 255 THEN 1 ELSE 0
              /\ IsAlu(last'.arg, 7) =>
                   /\ cpu'.v[x] = (vy - vx) % 256
                   /\ cpu'.v[15] = IF vy >= vx THEN 1 ELSE 0
              /\ (y # x /\ y # 15) => cpu'.v[y] = vy
      ]_vars

(* 6001; 6100; 8017: 0 - 1 borrowed: V0 = 255, VF = 0 and V1 still 0 *)
ReverseSubWitness ==
    /\ last.op = "step"
    /\ last.arg = Word(8, 0, 1, 7)
    /\ cpu.v[0] = 255
    /\ cpu.v[1] = 0
    /\ cpu.v[15] = 0

(* C30: every step that executes an opcode other than 00E0 and Dxyn, every *)
(* timer tick, every button_pressed and button_released and every load     *)
(* leaves all framebuffer cells and the changed flag as they were.         *)
OnlyClearAndDrawTouchDisplay ==
    [][ \/ last'.op \in {"step_timers", "button_pressed", "button_released", "load"}
        \/ /\ last'.op = "step"
           /\ last'.arg # Word(0, 0, 14, 0)
           /\ OpA(last'.arg) # 13
        => /\ cpu'.display = cpu.display
           /\ cpu'.display_changed = cpu.display_changed
      ]_vars

(* F115 has set the delay timer under the glyph drawn by D005: cells lit,  *)
(* the changed flag still set                                              *)
LitDisplayWitness ==
    /\ last.op = "step"
    /\ last.arg = Word(15, 1, 1, 5)
    /\ cpu.dt = 7
    /\ cpu.display[0]
    /\ cpu.display_changed

(* C31: the changed flag reflects only the most recent draw or clear: it is *)
(* false after a Dxyn or 00E0 that altered no framebuffer cell and true    *)
(* after one that altered at least one cell.                               *)
ChangedFlagTracksAlteration ==
    [][ /\ last'.op = "step"
        /\ IsDraw(last'.arg) \/ last'.arg = Word(0, 0, 14, 0)
        /\ cpu'.panic = NoPanic
        => cpu'.display_changed = (cpu'.display # cpu.display)
      ]_vars

(* C32: once a key-wait is pending the wait marker stays set across every  *)
(* step, timer tick and button_released call; Fx0A sets it even when a key *)
(* is already held down, so a held key does not resolve it; only           *)
(* button_pressed, restart and unload clear it.                            *)
KeyWaitHeldUntilPress ==
    [][ /\ (cpu.waiting_button_for # None =>
              IF last'.op \in {"button_pressed", "restart", "unload"}
              THEN cpu'.waiting_button_for = None
              ELSE cpu'.waiting_button_for = cpu.waiting_button_for)
        /\ (/\ last'.op = "step"
            /\ last'.arg >= 0
            /\ OpA(last'.arg) = 15 /\ OpByte(last'.arg) = 10
            => /\ cpu'.waiting_button_for = RegX(last'.arg)
               /\ cpu'.v = cpu.v
               /\ cpu'.buttons = cpu.buttons)
      ]_vars

(* key F went down before F50A executed and is still held; a timer tick    *)
(* has passed with the wait for V5 pending and still pending               *)
HeldKeyWaitWitness ==
    /\ last.op = "step_timers"
    /\ last.pre.wait = 5
    /\ cpu.waiting_button_for = 5
    /\ cpu.buttons[15]

(* C33: DT and ST are changed only by a timer tick, by Fx15 (DT = Vx), by   *)
(* Fx18 (ST = Vx) and by restart and unload: a step executing any other    *)
(* opcode, a key event and a load leave both as they were, so the timers   *)
(* do not depend on the number of steps between two ticks; Fx07 sets       *)
(* Vx = DT, leaves every other register and changes neither timer.         *)
TimersChangeOnlyByTickAndSet ==
    [][ LET ins == last'.arg
            IsF(low) == last'.op = "step" /\ ins >= 0
                          /\ OpA(ins) = 15 /\ OpByte(ins) = low
        IN
        /\ IsF(21) => cpu'.dt = cpu.v[RegX(ins)] /\ cpu'.st = cpu.st
        /\ IsF(24) => cpu'.st = cpu.v[RegX(ins)] /\ cpu'.dt = cpu.dt
        /\ IsF(7) => cpu'.v = [cpu.v EXCEPT ![RegX(ins)] = cpu.dt]
        /\ (/\ last'.op \notin {"step_timers", "restart", "unload"}
            /\ ~IsF(21) /\ ~IsF(24)
            => cpu'.dt = cpu.dt /\ cpu'.st = cpu.st)
      ]_vars

(* 6003; F015; 6001; F018; F107 with one tick after F015: V1 = DT = 2 and  *)
(* ST still 1                                                              *)
TimerReadWitness ==
    /\ last.op = "step"
    /\ last.arg = Word(15, 1, 0, 7)
    /\ cpu.v[1] = 2
    /\ cpu.dt = 2
    /\ cpu.st = 1

(* C34: for a key k in 0..15 and any interleaving of key events with       *)
(* steps, a step executing Ex9E with Vx = k skips (pc + 4) iff the most    *)
(* recent event for key k was button_pressed(k), with no later             *)
(* button_released(k), restart or unload, and otherwise advances by 2;     *)
(* ExA1 skips in exactly the opposite case.                                *)
KeyTestsReadLatestEvent ==
    [][ /\ last'.op = "step"
        /\ last'.arg >= 0
        /\ OpA(last'.arg) = 14
        /\ OpByte(last'.arg) \in {158, 161}
        /\ cpu.v[RegX(last'.arg)] \in 0..15
        => LET down == cpu.v[RegX(last'.arg)] \in last.held
               skips == IF OpByte(last'.arg) = 158 THEN down ELSE ~down
           IN cpu'.pc = IF skips THEN cpu.pc + 4 ELSE cpu.pc + 2
      ]_vars

(* key F resolved the wait of F50A and went up again before E59E executed: *)
(* no skip, although the key had been down                                 *)
KeyTestAfterReleaseWitness ==
    /\ last.op = "step"
    /\ last.arg = Word(14, 5, 9, 14)
    /\ cpu.v[5] = 15
    /\ 15 \notin last.held
    /\ cpu.pc = START_PC + 4

KeyWaitResumesAfterIt ==
    [][ LET before == fetch([cpu EXCEPT !.pc = cpu.pc - 2]) IN
        /\ (last'.op = "step" /\ IsKeyWait(last'.arg) =>
              /\ cpu'.pc = cpu.pc + 2
              /\ cpu'.v = cpu.v)
        /\ (cpu.waiting_button_for # None =>
              /\ IsKeyWait(before)
              /\ RegX(before) = cpu.waiting_button_for
              /\ cpu'.pc = cpu.pc \/ last'.op \in {"restart", "unload"})
        /\ (/\ last.op = "button_pressed" /\ last.pre.wait # None
            /\ last'.op = "step"
            => /\ IsKeyWait(before)
               /\ RegX(before) = last.pre.wait
               /\ last'.arg = fetch(cpu)
               /\ cpu'.tick = cpu.tick + 1
               /\ cpu'.v[last.pre.wait] = last.arg)
      ]_vars

(* key F resolved the wait of the F50A at START_PC and the next step ran    *)
(* the E59E after it, with V5 still the key                                *)
KeyWaitResumeWitness ==
    /\ last.op = "step"
    /\ last.arg = Word(14, 5, 9, 14)
    /\ last.pre.wait = None
    /\ cpu.v[5] = 15
    /\ cpu.pc = START_PC + 6
    /\ cpu.tick = 2

(* C37: in every reachable application state 1 <= config.speed <=          *)
(* MAX_SPEED, for every speed accepted on the command line and after any   *)
(* sequence of increase, decrease and reset key presses, and               *)
(* increase_speed never overflows the 16-bit speed.                        *)
SpeedInRange ==
    /\ app.speed \in 1..MAX_SPEED
    /\ app.panic = NoPanic

(* The palette indices after 1, 2, ..., k consecutive next_palette calls   *)
(* from a; -1 stands for a call that faulted.                              *)
RECURSIVE NextIndices(_, _)
NextIndices(a, k) ==
    IF k = 0 THEN <<>>
    ELSE LET b == next_palette(a) IN
         <<IF b.panic # NoPanic THEN -1 ELSE b.cur_palette_index>>
             \o NextIndices(b, k - 1)

(* C38: for every palette list of length n >= 1, next_palette and          *)
(* prev_palette never fault and keep cur_palette_index < n with            *)
(* palette = palettes[cur_palette_index]; n consecutive next_palette calls *)
(* visit every palette once and return to the starting one; and            *)
(* prev_palette after next_palette restores the previous index.            *)
PalettesCycle ==
    LET n == app.palettes_len
        seen == NextIndices(app, n)
    IN /\ app.panic = NoPanic
       /\ app.cur_palette_index \in 0..(n - 1)
       /\ app.palette = app.cur_palette_index + 1
       /\ { seen[j] : j \in 1..n } = 0..(n - 1)
       /\ seen[n] = app.cur_palette_index
       /\ prev_palette(next_palette(app)).panic = NoPanic
       /\ prev_palette(next_palette(app)).cur_palette_index
             = app.cur_palette_index

====
